---- MODULE Spec2Model ----
(***************************************************************************)
(* Verification model of the BlenderDataVis chart code.                    *)
(*                                                                         *)
(*  - Spec     : OBJECT_OT_BarChart.execute (operators/bar_chart.py), run  *)
(*               repeatedly on one operator instance over one data table.  *)
(*  - SpecAxis : DV_AddAxis / DV_AddDataLabels / DV_AxisPanel.draw         *)
(*               (geonodes/components.py) on one chart object.             *)
(*                                                                         *)
(* Numbers.  Raw values (data fields, range endpoints) are kept in HALF    *)
(* units (H(v) = 2*v) so that a range expanded by +-0.5 stays integral.    *)
(* Normalized values are exact fractions <<n, d>>, reduced, d > 0.         *)
(***************************************************************************)
EXTENDS Integers, Sequences, FiniteSets, TLC

\* ------------------------------------------------------------- bounds
MaxRows == 2        \* rows of a numeric table
MaxCats == 3        \* rows of a categorical table
MaxVal == 2         \* largest X value of a numeric row
MaxBuilds == 2      \* executions of the operator on one instance

Labels == {"A", "B", "C"}
XVals == 0..MaxVal
YVals == 0..1
ZVals == 0..1
CatVals == {0, 1, 20000}   \* a span wide enough for a normalized value below 0.0001

SeqsUpTo(S, n) == UNION {[1..k -> S] : k \in 0..n}

\* ------------------------------------------------------------- numbers
H(v) == 2 * v

Abs(n) == IF n < 0 THEN -n ELSE n

RECURSIVE Gcd(_, _)
Gcd(a, b) == IF b = 0 THEN a ELSE Gcd(b, a % b)

\* the fraction n/d (d # 0), reduced, with a positive denominator
Rat(n, d) ==
    LET g == Gcd(Abs(n), Abs(d))
        s == IF d < 0 THEN -1 ELSE 1
    IN <<(s * n) \div g, (s * d) \div g>>

RatHalf(q) == Rat(q[1], 2 * q[2])
RatLeq(p, q) == p[1] * q[2] <= q[1] * p[2]
Zero == <<0, 1>>
Epsilon == <<1, 10000>>

SetMin(S) == CHOOSE m \in S : \A x \in S : m <= x
SetMax(S) == CHOOSE m \in S : \A x \in S : m >= x

\* ------------------------------------------------------------- data_utils
Ok(v) == [raised |-> "", val |-> v]
Raise(e) == [raised |-> e, val |-> <<>>]

\* RangeResolver.resolve on an auto range: min/max of one column over all
\* rows, EmptyDataError on zero rows, a degenerate range widened by 0.5.
find_axis_range(d, val_idx) ==
    IF Len(d) = 0 THEN Raise("EmptyDataError")
    ELSE LET col == {d[i][val_idx + 1] : i \in 1..Len(d)}
             lo == SetMin(col)
             hi == SetMax(col)
         IN IF lo = hi THEN Ok(<<H(lo) - 1, H(hi) + 1>>)
            ELSE Ok(<<H(lo), H(hi)>>)

None == <<>>

\* true iff the numeric entry lies inside range_x (and range_y when given)
InRanges(entry, range_x, range_y) ==
    /\ range_x[1] <= H(entry[1])
    /\ H(entry[1]) <= range_x[2]
    /\ range_y # None => (range_y[1] <= H(entry[2]) /\ H(entry[2]) <= range_y[2])

\* value range over the rows inside range_x / range_y; raises when no row is
\* inside (the caller reports 'Cannot find data in this range!').
find_data_range(d, range_x, range_y) ==
    LET value_index == IF range_y = None THEN 2 ELSE 3
        vals == {d[i][value_index] : i \in {j \in 1..Len(d) : InRanges(d[j], range_x, range_y)}}
    IN IF vals = {} THEN Raise("EmptyDataError")
       ELSE LET lo == SetMin(vals)
                hi == SetMax(vals)
            IN IF lo = hi THEN Ok(<<H(lo) - 1, H(hi) + 1>>)
               ELSE Ok(<<H(lo), H(hi)>>)

\* Normalizer.normalize: the linear map (value-min)/(max-min); it has no
\* guard of its own against a zero span.
normalize_value(value, minimum, maximum) ==
    IF maximum - minimum = 0 THEN Raise("ZeroDivisionError")
    ELSE Ok(Rat(value - minimum, maximum - minimum))


\* ------------------------------------------------------------- bar chart state
VARIABLES
    data,         \* self.data: the table init_data loads (sequence of rows)
    data_type,    \* self.data_type: "0" numerical, "1" categorical
    dimensions,   \* self.dimensions: "2" or "3"
    auto_ranges,  \* self.axis_settings.auto_ranges
    x_range,      \* self.axis_settings.x_range (half units)
    y_range,      \* self.axis_settings.y_range (half units)
    builds,       \* what each execution so far produced, oldest first
    chart,        \* SpecAxis: data type of the chart object
    modifiers     \* SpecAxis: obj.modifiers, in stack order

barVars == <<data, data_type, dimensions, auto_ranges, x_range, y_range, builds>>
axisVars == <<chart, modifiers>>
vars == <<barVars, axisVars>>

Numerical == "Numerical"
Categorical == "Categorical"

data_type_as_enum(self) ==
    IF self.data_type = "0" THEN Numerical ELSE Categorical

Self ==
    [data |-> data, data_type |-> data_type, dimensions |-> dimensions,
     auto_ranges |-> auto_ranges, x_range |-> x_range, y_range |-> y_range]

\* init_range: both stored axis ranges are re-derived from the data
init_range(self) ==
    LET rx == find_axis_range(self.data, 0)
        ry == find_axis_range(self.data, 1)
    IN IF rx.raised # "" THEN [raised |-> rx.raised, self |-> self]
       ELSE IF ry.raised # "" THEN [raised |-> ry.raised, self |-> [self EXCEPT !.x_range = rx.val]]
       ELSE [raised |-> "", self |-> [self EXCEPT !.x_range = rx.val, !.y_range = ry.val]]

\* (mutant) the upper end grows from the stored one instead of being reset
categorical_override_accumulating(self) ==
    [self EXCEPT !.dimensions = "2",
                 !.x_range = <<0, self.x_range[2] + H(Len(self.data) - 1)>>]

\* categorical data: 2D is forced and the X range becomes [0, n-1]
categorical_override(self) ==
    [self EXCEPT !.dimensions = "2",
                 !.x_range = <<0, H(Len(self.data) - 1)>>]

\* lines 78-84
prepare(self) ==
    IF data_type_as_enum(self) = Numerical
    THEN IF self.auto_ranges THEN init_range(self)
         ELSE [raised |-> "", self |-> self]
    ELSE [raised |-> "", self |-> categorical_override(self)]

\* (mutant) rows of any width pass a 3D request
dimension_check_lenient(self) ==
    IF self.dimensions # "3" THEN Ok(TRUE)
    ELSE IF Len(self.data) = 0 THEN Raise("IndexError")
    ELSE Ok(Len(self.data[1]) >= 2)

\* line 86: "IndexError" when there is no first row to measure
dimension_check(self) ==
    IF self.dimensions # "3" THEN Ok(TRUE)
    ELSE IF Len(self.data) = 0 THEN Raise("IndexError")
    ELSE Ok(Len(self.data[1]) = 3)

\* lines 91-99: the value-axis range
value_range(self) ==
    IF data_type_as_enum(self) = Numerical
    THEN find_data_range(self.data, self.x_range,
                         IF self.dimensions = "3" THEN self.y_range ELSE None)
    ELSE IF Len(self.data) = 0 THEN Raise("ValueError")
    ELSE LET col == {self.data[i][2] : i \in 1..Len(self.data)}
         IN Ok(<<H(SetMin(col)), H(SetMax(col))>>)

\* bounds filter: a row is kept iff its value on every positional axis in use
\* lies inside that axis' range; categorical rows (positioned by row index
\* over [0, n-1]) are always kept.
in_axis_range_bounds_new(self, entry) ==
    IF data_type_as_enum(self) # Numerical THEN TRUE
    ELSE InRanges(entry, self.x_range,
                  IF self.dimensions = "3" THEN self.y_range ELSE None)

\* (mutant) the lower comparison is strict, so 0 itself is not raised
clamp_z_positive_only(z_norm) ==
    IF ~RatLeq(z_norm, Zero) /\ RatLeq(z_norm, Epsilon) THEN Epsilon ELSE z_norm

\* (mutant) the skip of line 111 is missing
entry_retained_always(self, entry) == TRUE

\* lines 110-111: an entry failing the bounds filter is skipped
entry_retained(self, entry) == in_axis_range_bounds_new(self, entry)

\* lines 123-124
clamp_z(z_norm) ==
    IF RatLeq(Zero, z_norm) /\ RatLeq(z_norm, Epsilon) THEN Epsilon ELSE z_norm

\* lines 104-107 (1-based column)
value_column(self) == IF self.dimensions = "2" THEN 2 ELSE 3

\* lines 113-135 for one retained entry (i is the 0-based row index)
place_bar(self, i, entry, zr) ==
    LET x_value == IF data_type_as_enum(self) = Numerical THEN H(entry[1]) ELSE H(i)
        x_norm == normalize_value(x_value, self.x_range[1], self.x_range[2])
        z_raw == normalize_value(H(entry[value_column(self)]), zr[1], zr[2])
        y_norm == normalize_value(H(entry[2]), self.y_range[1], self.y_range[2])
    IN IF x_norm.raised # "" THEN Raise(x_norm.raised)
       ELSE IF z_raw.raised # "" THEN Raise(z_raw.raised)
       ELSE LET z_norm == clamp_z(z_raw.val) IN
            IF self.dimensions = "2"
            THEN Ok([row |-> i, z_norm |-> z_norm, scale_z |-> RatHalf(z_norm),
                     location |-> <<x_norm.val, Zero, RatHalf(z_norm)>>])
            ELSE IF y_norm.raised # "" THEN Raise(y_norm.raised)
            ELSE Ok([row |-> i, z_norm |-> z_norm, scale_z |-> RatHalf(z_norm),
                     location |-> <<x_norm.val, y_norm.val, RatHalf(z_norm)>>])

\* lines 109-135: the loop over the rows, stopped by the first exception
RECURSIVE bar_loop(_, _, _, _)
bar_loop(self, zr, k, acc) ==
    IF k > Len(self.data) \/ acc.raised # "" THEN acc
    ELSE LET entry == self.data[k] IN
         IF ~entry_retained(self, entry) THEN bar_loop(self, zr, k + 1, acc)
         ELSE LET labels == IF data_type_as_enum(self) = Numerical THEN acc.tick_labels
                            ELSE Append(acc.tick_labels, entry[1])
                  bar == place_bar(self, k - 1, entry, zr)
              IN bar_loop(self, zr, k + 1,
                    [raised |-> bar.raised,
                     cubes |-> acc.cubes + 1,
                     tick_labels |-> labels,
                     placements |-> IF bar.raised = "" THEN Append(acc.placements, bar.val)
                                    ELSE acc.placements])

\* TickPlanner.plan on a categorical axis: one tick per label, in the order
\* given, the i-th at i normalized over [0, n-1], labelled verbatim
categorical_ticks(tick_labels) ==
    LET n == Len(tick_labels)
    IN [i \in 1..n |->
          [position |-> normalize_value(H(i - 1), 0, H(n - 1)).val,
           label |-> tick_labels[i]]]

\* AxisFactory.create: one AxisSpec per active axis (X, Y when 3D, Z)
AxisFactory_create(ranges, dims, tick_labels) ==
    LET X == [axis |-> "X", range |-> ranges[1],
              is_categorical |-> tick_labels # <<>>,
              ticks |-> categorical_ticks(tick_labels)]
        Y == [axis |-> "Y", range |-> ranges[2], is_categorical |-> FALSE, ticks |-> <<>>]
        Z == [axis |-> "Z", range |-> ranges[3], is_categorical |-> FALSE, ticks |-> <<>>]
    IN IF dims = 3 THEN <<X, Y, Z>> ELSE <<X, Z>>

NoOutput ==
    [container |-> FALSE, cubes |-> 0, placements |-> <<>>, tick_labels |-> <<>>,
     value_range |-> None, axis |-> <<>>]

Outcome(status, report, raised, before, after, output) ==
    [status |-> status, report |-> report, raised |-> raised,
     before |-> before, after |-> after, output |-> output]

\* OBJECT_OT_BarChart.execute, lines 76-149
execute(self) ==
    LET p == prepare(self) IN
    IF p.raised # "" THEN Outcome("RAISED", "", p.raised, self, p.self, NoOutput)
    ELSE
    LET s == p.self
        chk == dimension_check(s)
    IN
    IF chk.raised # "" THEN Outcome("RAISED", "", chk.raised, self, s, NoOutput)
    ELSE IF ~chk.val THEN Outcome("CANCELLED", "Data are only 2D!", "", self, s, NoOutput)
    ELSE
    LET created == [NoOutput EXCEPT !.container = TRUE]
        zr == value_range(s)
    IN
    IF zr.raised # "" /\ data_type_as_enum(s) = Numerical
    THEN Outcome("CANCELLED", "Cannot find data in this range!", "", self, s, created)
    ELSE IF zr.raised # "" THEN Outcome("RAISED", "", zr.raised, self, s, created)
    ELSE
    LET loop == bar_loop(s, zr.val, 1,
                         [raised |-> "", cubes |-> 0, tick_labels |-> <<>>, placements |-> <<>>])
        looped == [created EXCEPT !.value_range = zr.val, !.cubes = loop.cubes,
                                  !.placements = loop.placements,
                                  !.tick_labels = loop.tick_labels]
    IN
    IF loop.raised # "" THEN Outcome("RAISED", "", loop.raised, self, s, looped)
    ELSE Outcome("FINISHED", "", "", self, s,
                 [looped EXCEPT !.axis =
                    AxisFactory_create(<<s.x_range, s.y_range, zr.val>>,
                                       IF s.dimensions = "3" THEN 3 ELSE 2,
                                       loop.tick_labels)])

\* ------------------------------------------------------------- bar chart behaviour
NumericRows2 == XVals \X ZVals
NumericRows3 == XVals \X YVals \X ZVals
CategoricalRows == Labels \X CatVals

XRanges == {<<0, H(MaxVal)>>, <<H(1), H(MaxVal)>>, <<H(1), H(1)>>}
YRanges == {<<0, H(1)>>, <<H(1), H(1)>>}

\* The stored ranges vary where a build reads them (numeric data, auto
\* ranges off); elsewhere the build overwrites or ignores them and they start
\* at the full range.
InitBar ==
    /\ dimensions \in {"2", "3"}
    /\ auto_ranges \in BOOLEAN
    /\ \/ /\ data_type = "0"
          /\ data \in SeqsUpTo(NumericRows2, MaxRows) \cup SeqsUpTo(NumericRows3, MaxRows)
          /\ x_range \in IF auto_ranges THEN {<<0, H(MaxVal)>>} ELSE XRanges
          /\ y_range \in IF auto_ranges THEN {<<0, H(1)>>} ELSE YRanges
       \/ /\ data_type = "1"
          /\ data \in SeqsUpTo(CategoricalRows, MaxCats)
          /\ x_range = <<0, H(MaxVal)>>
          /\ y_range = <<0, H(1)>>
    /\ builds = <<>>

Execute ==
    /\ Len(builds) < MaxBuilds
    /\ builds' = Append(builds, execute(Self))
    /\ dimensions' = builds'[Len(builds')].after.dimensions
    /\ x_range' = builds'[Len(builds')].after.x_range
    /\ y_range' = builds'[Len(builds')].after.y_range
    /\ UNCHANGED <<data, data_type, auto_ranges, axisVars>>

Init ==
    /\ InitBar
    /\ chart = "none"
    /\ modifiers = <<>>

Next == Execute

Spec == Init /\ [][Next]_vars


\* ------------------------------------------------------------- bar chart properties
Builds == {builds[k] : k \in 1..Len(builds)}

IsNumeric(b) == b.before.data_type = "0"
Rows(b) == b.before.data
RowsPlaced(b) == [k \in 1..Len(b.output.placements) |-> b.output.placements[k].row]
DimensionError == "Data are only 2D!"
RangeError == "Cannot find data in this range!"

\* 0-based indices, in data order, of the rows lying inside the resolved X
\* range (and Y range in a 3D build); every row of a categorical table
RowsInRange(b) ==
    LET d == Rows(b)
        xr == b.after.x_range
        yr == b.after.y_range
        Inside(i) ==
            \/ ~IsNumeric(b)
            \/ /\ xr[1] <= 2 * d[i + 1][1] /\ 2 * d[i + 1][1] <= xr[2]
               /\ b.after.dimensions = "3" =>
                    (yr[1] <= 2 * d[i + 1][2] /\ 2 * d[i + 1][2] <= yr[2])
    IN SelectSeq([k \in 1..Len(d) |-> k - 1], Inside)

\* the build got past the dimension check on a non-empty table
Validated(b) ==
    /\ Len(Rows(b)) > 0
    /\ b.report # DimensionError
    /\ b.raised \notin {"EmptyDataError", "IndexError"}

C2_CategoricalAlways2D ==
    \A b \in Builds :
        ~IsNumeric(b) =>
            /\ b.status = "FINISHED"
            /\ b.report # DimensionError
            /\ \A k \in 1..Len(b.output.placements) :
                  b.output.placements[k].location[2] = Zero

C4_NoPartialOutput ==
    \A b \in Builds : b.status = "CANCELLED" => b.output = NoOutput

\* C5: in every placement the value-axis coordinate is the normalized value,
\* raised to 0.0001 when it lies in [0, 0.0001] and unchanged above, so it is
\* never 0; the X and Y coordinates are the normalized values, unclamped.
C5_ValueAxisClamp ==
    \A b \in Builds :
        \A k \in 1..Len(b.output.placements) :
            LET pl == b.output.placements[k]
                entry == Rows(b)[pl.row + 1]
                zr == b.output.value_range
                xr == b.after.x_range
                yr == b.after.y_range
                vcol == IF b.after.dimensions = "2" THEN 2 ELSE 3
                z == Rat(2 * entry[vcol] - zr[1], zr[2] - zr[1])
                xv == IF IsNumeric(b) THEN 2 * entry[1] ELSE 2 * pl.row
                inEps == z[1] >= 0 /\ z[1] * 10000 <= z[2]
            IN /\ pl.z_norm # Zero
               /\ inEps => pl.z_norm = <<1, 10000>>
               /\ ~inEps => pl.z_norm = z
               /\ pl.location[3] = Rat(pl.z_norm[1], 2 * pl.z_norm[2])
               /\ pl.location[1] = Rat(xv - xr[1], xr[2] - xr[1])
               /\ pl.location[2] = IF b.after.dimensions = "2" THEN Zero
                                   ELSE Rat(2 * entry[2] - yr[1], yr[2] - yr[1])

C5_Witness ==
    \E b \in Builds :
        /\ b.output.value_range = <<0, 40000>>
        /\ \E k \in 1..Len(b.output.placements) :
              /\ Rows(b)[k][2] = 0
              /\ b.output.placements[k].z_norm = Epsilon
              /\ b.output.placements[k].location[1] = Zero
        /\ \E k \in 1..Len(b.output.placements) :
              /\ Rows(b)[k][2] = 1
              /\ b.output.placements[k].z_norm = Epsilon
        /\ \E k \in 1..Len(b.output.placements) :
              b.output.placements[k].z_norm = <<1, 1>>

\* C6 (as claimed): every range derived from the data (the value range, the
\* X range of categorical data, the auto ranges) that a build normalizes a
\* retained row against has min < max.
C6_RangesNonDegenerate ==
    \A b \in Builds :
        b.output.cubes > 0 =>
            /\ b.output.value_range[1] < b.output.value_range[2]
            /\ (~IsNumeric(b) \/ b.before.auto_ranges) =>
                  /\ b.after.x_range[1] < b.after.x_range[2]
                  /\ b.after.dimensions = "3" => b.after.y_range[1] < b.after.y_range[2]

\* the X-axis ticks a build handed over (none when no axis was created)
TicksOf(b) == IF b.output.axis = <<>> THEN <<>> ELSE b.output.axis[1].ticks

\* C7 (as claimed): a build on n categories yields n X ticks, the i-th
\* labelled with the i-th category and placed at i/(n-1).
C7_CategoricalTicks ==
    \A b \in Builds :
        ~IsNumeric(b) =>
            LET n == Len(Rows(b)) IN
            /\ Len(TicksOf(b)) = n
            /\ \A i \in 1..Len(TicksOf(b)) :
                  /\ TicksOf(b)[i].label = Rows(b)[i][1]
                  /\ n > 1 => TicksOf(b)[i].position = Rat(i - 1, n - 1)

\* C8: every execution after the first, on the same table and with the
\* operator state the previous one left behind, ends the same way with the
\* same report or exception and the same axis specs and placements.
C8_RebuildIdentical ==
    \A k \in 2..Len(builds) :
        /\ builds[k].status = builds[k - 1].status
        /\ builds[k].report = builds[k - 1].report
        /\ builds[k].raised = builds[k - 1].raised
        /\ builds[k].output = builds[k - 1].output

C8_Witness ==
    /\ Len(builds) >= 2
    /\ builds[2].before # builds[1].before
    /\ builds[2].status = "FINISHED"
    /\ Len(builds[2].output.placements) >= 2

\* C9 (as claimed): a build on a table with zero rows fails with the
\* empty-data error (raised, or reported as no data in range), never with an
\* index or value error.
C9_EmptyTableFails ==
    \A b \in Builds :
        Len(Rows(b)) = 0 =>
            \/ b.status = "RAISED" /\ b.raised = "EmptyDataError"
            \/ b.status = "CANCELLED" /\ b.report = RangeError


\* ------------------------------------------------------------- geonodes components
MaxModifiers == 3   \* modifiers added to the chart object

AXIS_NODE_GROUPS == {"DV_CategoricalAxis", "DV_NumericAxis"}
AxisNames == {"X", "Y", "Z"}
AxisType == [NUMERIC |-> "Numeric", CATEGORICAL |-> "Categorical"]
NoModifier == [type |-> "NONE"]

\* A name is its space-separated words plus the duplicate suffix (0: none,
\* k: ".00k") that Blender appends to the last word to keep names unique.
Name(words, dup) == [words |-> words, dup |-> dup]

\* DUPLICATE_SUFFIX_RE.sub("", name)
remove_duplicate_suffix(name) == Name(name.words, 0)

\* name.rsplit(" ", 1)
rsplit(name) ==
    LET n == Len(name.words) IN
    IF n = 1 THEN <<name>>
    ELSE <<Name(SubSeq(name.words, 1, n - 1), 0), Name(<<name.words[n]>>, name.dup)>>

\* the name Blender gives: the first free duplicate suffix among the others
unique_name(words, others) ==
    LET taken == {o.name.dup : o \in {m \in others : m.name.words = words}}
    IN Name(words, SetMin((0..Cardinality(others)) \ taken))

\* (mutant) the node group name is compared with its duplicate suffix on
is_axis_node_group_exact(node_group) ==
    node_group \in {Name(<<g>>, 0) : g \in AXIS_NODE_GROUPS}

\* line 55
is_axis_node_group(node_group) ==
    remove_duplicate_suffix(node_group) \in {Name(<<g>>, 0) : g \in AXIS_NODE_GROUPS}

RECURSIVE axis_scan(_, _, _)
axis_scan(mods, k, ret) ==
    IF k > Len(mods) THEN ret
    ELSE LET mod == mods[k]
             split == rsplit(mod.name)
         IN IF /\ mod.type = "NODES"
               /\ is_axis_node_group(mod.node_group)
               /\ Len(split) # 1
               /\ split[2] \in {Name(<<a>>, 0) : a \in AxisNames}
            THEN axis_scan(mods, k + 1, [ret EXCEPT ![split[2].words[1]] = mod])
            ELSE axis_scan(mods, k + 1, ret)

get_axis_on_chart(mods) ==
    axis_scan(mods, 1, [a \in AxisNames |-> NoModifier])

get_compatible_axis(obj) ==
    [a \in AxisNames |->
        CASE a = "Z" -> AxisType.NUMERIC
          [] a = "Y" -> IF obj.is_3d THEN AxisType.NUMERIC ELSE "None"
          [] a = "X" -> IF obj.is_categorical THEN AxisType.CATEGORICAL
                        ELSE AxisType.NUMERIC]

\* library.load_numeric_axis / load_categorical_axis: the node group, which
\* carries a duplicate suffix when the library was appended more than once
load_axis_modifier(axis_type, dup) ==
    IF axis_type = AxisType.NUMERIC THEN Name(<<"DV_NumericAxis">>, dup)
    ELSE Name(<<"DV_CategoricalAxis">>, dup)

axis_inputs(axis) ==
    CASE axis = "X" -> [rotation |-> <<0, 0, 0>>, offset |-> <<0, -1, 0>>, range_source |-> 1]
      [] axis = "Y" -> [rotation |-> <<0, 0, 90>>, offset |-> <<0, 1, 0>>, range_source |-> 2]
      [] axis = "Z" -> [rotation |-> <<0, -90, 0>>, offset |-> <<0, -1, 1>>, range_source |-> 3]

\* _setup_categorical_axis
categorical_inputs(obj, axis_type) ==
    IF axis_type = AxisType.CATEGORICAL /\ obj.has_data
    THEN [tick_count |-> Len(obj.categories), labels |-> obj.categories]
    ELSE [tick_count |-> 0, labels |-> <<>>]

\* DV_AddAxis.execute: the new modifier
add_axis_modifier(obj, mods, axis, axis_type, dup) ==
    LET others == {mods[k] : k \in 1..Len(mods)} IN
    [type |-> "NODES",
     name |-> unique_name(<<axis_type, "Axis", axis>>, others),
     node_group |-> load_axis_modifier(axis_type, dup),
     show_expanded |-> FALSE,
     inputs |-> axis_inputs(axis),
     categorical |-> categorical_inputs(obj, axis_type)]

\* DV_AxisPanel.draw: the axes for which an 'Add <axis>' operator is drawn
panel_add_operators(obj, mods) ==
    {a \in AxisNames :
        /\ get_axis_on_chart(mods)[a] = NoModifier
        /\ get_compatible_axis(obj)[a] # "None"}

ChartModifier ==
    [type |-> "NODES", name |-> Name(<<"Bar", "Chart">>, 0),
     node_group |-> Name(<<"DV_BarChart">>, 0), show_expanded |-> TRUE,
     inputs |-> [rotation |-> <<0, 0, 0>>, offset |-> <<0, 0, 0>>, range_source |-> 0],
     categorical |-> [tick_count |-> 0, labels |-> <<>>]]

InitAxis ==
    /\ chart \in [is_3d : BOOLEAN, is_categorical : BOOLEAN, has_data : BOOLEAN,
                  categories : {<<"A", "B">>}]
    /\ modifiers = <<ChartModifier>>

\* the panel's 'Add <axis> (<type>)' button: pass_invoke = True
AddAxisFromPanel ==
    /\ Len(modifiers) <= MaxModifiers
    /\ \E a \in panel_add_operators(chart, modifiers), dup \in 0..1 :
          modifiers' = Append(modifiers,
              add_axis_modifier(chart, modifiers, a, get_compatible_axis(chart)[a], dup))
    /\ UNCHANGED <<chart, barVars>>

\* the header '+' button: pass_invoke = False, axis and type picked in the dialog
AddAxisFromDialog ==
    /\ Len(modifiers) <= MaxModifiers
    /\ \E a \in AxisNames, t \in {AxisType.NUMERIC, AxisType.CATEGORICAL}, dup \in 0..1 :
          modifiers' = Append(modifiers, add_axis_modifier(chart, modifiers, a, t, dup))
    /\ UNCHANGED <<chart, barVars>>

\* DV_AddDataLabels.execute
AddDataLabels ==
    /\ Len(modifiers) <= MaxModifiers
    /\ modifiers' = Append(modifiers,
          [type |-> "NODES",
           name |-> unique_name(<<"Data", "Labels">>, {modifiers[k] : k \in 1..Len(modifiers)}),
           node_group |-> Name(<<"DV_DataLabels">>, 0), show_expanded |-> TRUE,
           inputs |-> [rotation |-> <<0, 0, 0>>, offset |-> <<0, 0, 0>>, range_source |-> 0],
           categorical |-> [tick_count |-> 0, labels |-> <<>>]])
    /\ UNCHANGED <<chart, barVars>>

InitAxisSpec ==
    /\ InitAxis
    /\ data = <<>> /\ data_type = "0" /\ dimensions = "2" /\ auto_ranges = FALSE
    /\ x_range = <<0, H(1)>> /\ y_range = <<0, H(1)>> /\ builds = <<>>

NextAxis == AddAxisFromPanel \/ AddAxisFromDialog \/ AddDataLabels

SpecAxis == InitAxisSpec /\ [][NextAxis]_vars

\* ------------------------------------------------------------- axis properties
RangeSourceOf(a) == CASE a = "X" -> 1 [] a = "Y" -> 2 [] a = "Z" -> 3

\* DV_AddAxis has executed with axis = a (modifiers are only ever added)
AxisAdded(a) ==
    \E k \in 1..Len(modifiers) : modifiers[k].inputs.range_source = RangeSourceOf(a)

\* C10: once DV_AddAxis has executed for an axis, get_axis_on_chart maps it
\* to a modifier named '<type> Axis <axis>' with that axis' Range Source,
\* and the panel draws 'Add <axis>' only for an axis that has not been added
\* and that has a compatible type for the chart's data.
C10_AxisPanelConsistent ==
    \A a \in AxisNames :
        LET mod == get_axis_on_chart(modifiers)[a]
            offered == a \in panel_add_operators(chart, modifiers)
        IN /\ AxisAdded(a) =>
                /\ mod # NoModifier
                /\ mod.name \in {Name(<<t, "Axis", a>>, 0) : t \in {"Numeric", "Categorical"}}
                /\ mod.inputs.range_source = RangeSourceOf(a)
           /\ offered => ~AxisAdded(a)
           /\ offered =>
                get_compatible_axis(chart)[a] =
                    CASE a = "Z" -> "Numeric"
                      [] a = "Y" /\ chart.is_3d -> "Numeric"
                      [] a = "Y" /\ ~chart.is_3d -> "None"
                      [] a = "X" -> IF chart.is_categorical THEN "Categorical" ELSE "Numeric"
           /\ (~AxisAdded(a) /\ (a = "Y" => chart.is_3d)) => offered

C10_Witness ==
    /\ \E k \in 1..Len(modifiers) :
          /\ modifiers[k].name = Name(<<"Numeric", "Axis", "X">>, 1)
          /\ modifiers[k].node_group.dup = 1
    /\ "X" \notin panel_add_operators(chart, modifiers)
    /\ "Z" \in panel_add_operators(chart, modifiers)

====
